---- MODULE Spec2Model ----
(***************************************************************************)
(* Kombot (src/app.py): a Streamlit script that keeps a chat transcript in *)
(* st.session_state, converts it into the history format of the Gemini    *)
(* chat API, sends the new prompt (streaming or batch) and commits or      *)
(* rolls back the turn.                                                    *)
(*                                                                         *)
(* The script is re-executed from its first line on every user action.     *)
(* pc names the line the current script run is about to execute; "idle"    *)
(* means that no script run is in progress and the UI waits for the user.  *)
(* Texts are TLA+ strings, \o is Python's str +.                           *)
(***************************************************************************)
EXTENDS Integers, Sequences, FiniteSets, TLC

VARIABLES
    messages,            \* st.session_state.messages
    session_start,       \* st.session_state.session_start
    now,                 \* the wall clock read by datetime.now()
    use_streaming,       \* the checkbox of line 101
    max_history,         \* the slider of line 102
    chat_input,          \* what st.chat_input returns in the current run
    pc,                  \* the line the script run is at, or "idle"
    prompt,              \* the local of line 117
    history_for_gemini,  \* the local of line 130
    chat_session,        \* the ChatSession of line 136
    full_response,       \* the accumulator of line 142
    response_text,       \* response.text of the batch branch
    emitted,             \* the fragments the backend has yielded in this turn
    renders,             \* what the assistant's chat block has displayed, in order
    pre,                 \* the transcript as it was when line 117 got the prompt
    outcome,             \* how the last chat turn ended
    reset_invoked,       \* the time the reset button was clicked, -1 if it was not
    conv_pc,             \* a direct call of convert_messages_to_history: position
    conv_messages,       \*   its messages argument
    conv_arg,            \*   the caller's copy of that argument
    conv_K,              \*   its max_history argument
    conv_out             \*   its return value

vars == <<messages, session_start, now, use_streaming, max_history, chat_input,
          pc, prompt, history_for_gemini, chat_session, full_response,
          response_text, emitted, renders, pre, outcome, reset_invoked,
          conv_pc, conv_messages, conv_arg, conv_K, conv_out>>

turnVars == <<prompt, history_for_gemini, chat_session, full_response,
              response_text, emitted, renders>>
convVars == <<conv_pc, conv_messages, conv_arg, conv_K, conv_out>>

-----------------------------------------------------------------------------
(* Bounds of the model *)

\* a prompt is accepted only while the transcript is shorter than this
MaxMsgs == 4
\* the backend yields at most this many fragments in one stream
MaxFrags == 2
\* the clock stops at this time
MaxTime == 2
\* the user moves the slider to values up to this one
MaxSliderPick == 20
\* direct calls of the adapter: longest transcript, largest window
MaxConvLen == 3
MaxConvK == 4
\* the long session: completed turns it starts from, entries it may gain
LongTurns == 5
MaxNew == 2
\* contents of the transcripts given to the adapter directly
ConvContents == {"p", "a"}

(* Program constants *)
SliderMin == 10
SliderMax == 100
SliderStep == 10
SliderDefault == 50

Prompts == {"p", "q"}
Fragments == {"", "a"}
CursorMarker == "▌"
NoPrompt == "<none>"
NoSession == [open |-> FALSE, history |-> <<>>, sent |-> <<>>]

Min(a, b) == IF a < b THEN a ELSE b
Max(a, b) == IF a > b THEN a ELSE b

SliderValues == {v \in SliderMin..SliderMax : (v - SliderMin) % SliderStep = 0}

UserMsg(text) == [role |-> "user", content |-> text]
AssistantMsg(text) == [role |-> "assistant", content |-> text]

-----------------------------------------------------------------------------
(* Python list operations *)

\* s[start:]
PySliceFrom(s, start) ==
    LET n == Len(s)
        i == IF start < 0 THEN Max(n + start, 0) ELSE Min(start, n)
    IN SubSeq(s, i + 1, n)

\* s[:-1]
PyDropLast(s) == SubSeq(s, 1, Max(Len(s) - 1, 0))

\* s.pop() on a non-empty list: what is left
PyPop(s) == SubSeq(s, 1, Len(s) - 1)

-----------------------------------------------------------------------------
(* convert_messages_to_history, lines 19-32 *)

GeminiRoleAlwaysUser(role) == "user"

GeminiRole(role) == IF role = "assistant" THEN "model" ELSE "user"

RecentMessages(msgs, K) ==
    IF Len(msgs) > K THEN PySliceFrom(msgs, -K) ELSE msgs

convert_messages_to_history(msgs, K) ==
    LET recent == RecentMessages(msgs, K)
    IN [i \in 1..Len(recent) |->
            [role |-> GeminiRole(recent[i].role), parts |-> <<recent[i].content>>]]

PreviousMessagesWithPending(msgs) == msgs

\* st.session_state.messages[:-1], line 131
PreviousMessages(msgs) == PyDropLast(msgs)

-----------------------------------------------------------------------------
(* Streaming accumulation and rendering, lines 147-153 *)

AccumulateOverwrite(acc, text) == text

Accumulate(acc, text) == acc \o text

WithCursorMissing(acc) == acc

WithCursor(acc) == acc \o CursorMarker

-----------------------------------------------------------------------------
Init ==
    /\ messages = <<>>
    /\ session_start = 0
    /\ now = 0
    /\ use_streaming = TRUE
    /\ max_history = SliderDefault
    /\ chat_input = NoPrompt
    /\ pc = "idle"
    /\ prompt = NoPrompt
    /\ history_for_gemini = <<>>
    /\ chat_session = NoSession
    /\ full_response = ""
    /\ response_text = ""
    /\ emitted = <<>>
    /\ renders = <<>>
    /\ pre = <<>>
    /\ outcome = "none"
    /\ reset_invoked = -1
    /\ conv_pc = "off"
    /\ conv_messages = <<>>
    /\ conv_arg = <<>>
    /\ conv_K = 0
    /\ conv_out = <<>>

-----------------------------------------------------------------------------
(* The clock *)

Tick ==
    /\ now < MaxTime
    /\ now' = now + 1
    /\ UNCHANGED <<messages, session_start, use_streaming, max_history,
                   chat_input, pc, pre, outcome, reset_invoked>>
    /\ UNCHANGED turnVars
    /\ UNCHANGED convVars

-----------------------------------------------------------------------------
(* User actions; each starts a script run.  Lines 56-60 do nothing in a     *)
(* session whose state exists already.                                      *)

\* what every new script run starts from
NewRun ==
    /\ pc = "idle"
    /\ pre' = <<>>
    /\ outcome' = "none"
    /\ prompt' = NoPrompt
    /\ UNCHANGED <<messages, session_start, now, history_for_gemini,
                   chat_session, full_response, response_text, emitted, renders>>
    /\ UNCHANGED convVars

\* the button of line 67 is clicked: st.button returns True in this run
ClickReset ==
    /\ NewRun
    /\ reset_invoked' = now
    /\ chat_input' = NoPrompt
    /\ pc' = "l68"
    /\ UNCHANGED <<use_streaming, max_history>>

\* the checkbox of line 101 is toggled
ToggleStreaming ==
    /\ NewRun
    /\ use_streaming' = ~use_streaming
    /\ reset_invoked' = -1
    /\ chat_input' = NoPrompt
    /\ pc' = "l76"
    /\ UNCHANGED max_history

\* the slider of lines 102-109 is moved
MoveSlider ==
    /\ NewRun
    /\ \E v \in SliderValues :
          /\ v <= MaxSliderPick
          /\ v # max_history
          /\ max_history' = v
    /\ reset_invoked' = -1
    /\ chat_input' = NoPrompt
    /\ pc' = "l76"
    /\ UNCHANGED use_streaming

\* a prompt is submitted in the chat input of line 117
Submit(lo, hi) ==
    /\ NewRun
    /\ lo <= Len(messages)
    /\ Len(messages) < hi
    /\ \E p \in Prompts : chat_input' = p
    /\ reset_invoked' = -1
    /\ pc' = "l76"
    /\ UNCHANGED <<use_streaming, max_history>>

-----------------------------------------------------------------------------
(* The reset handler, lines 67-70 *)

Reset68 ==
    /\ pc = "l68"
    /\ messages' = <<>>
    /\ pc' = "l69"
    /\ UNCHANGED <<session_start, now, use_streaming, max_history, chat_input,
                   pre, outcome, reset_invoked>>
    /\ UNCHANGED turnVars
    /\ UNCHANGED convVars

Reset69KeepsStart ==
    /\ pc = "l69"
    /\ pc' = "l70"
    /\ UNCHANGED <<messages, session_start, now, use_streaming, max_history,
                   chat_input, pre, outcome, reset_invoked>>
    /\ UNCHANGED turnVars
    /\ UNCHANGED convVars

Reset69 ==
    /\ pc = "l69"
    /\ session_start' = now
    /\ pc' = "l70"
    /\ UNCHANGED <<messages, now, use_streaming, max_history, chat_input,
                   pre, outcome, reset_invoked>>
    /\ UNCHANGED turnVars
    /\ UNCHANGED convVars

\* st.rerun(): the script starts again, the button now returns False
Rerun70 ==
    /\ pc = "l70"
    /\ pc' = "l76"
    /\ UNCHANGED <<messages, session_start, now, use_streaming, max_history,
                   chat_input, pre, outcome, reset_invoked>>
    /\ UNCHANGED turnVars
    /\ UNCHANGED convVars

-----------------------------------------------------------------------------
(* The renders every run makes, lines 72-114 and 192-193 *)

\* a step of the run that changes nothing but the position
Goto(from, to) ==
    /\ pc = from
    /\ pc' = to
    /\ UNCHANGED <<messages, session_start, now, use_streaming, max_history,
                   chat_input, pre, outcome, reset_invoked>>
    /\ UNCHANGED turnVars
    /\ UNCHANGED convVars

\* statistics and settings of the sidebar, lines 72-109
RenderSidebar ==
    /\ pc = "l76"
    /\ Goto("l76", "l112")

\* the replay of the transcript, lines 112-114
RenderTranscript ==
    /\ pc = "l112"
    /\ Goto("l112", "l117")

\* line 117 when nothing was submitted
NoChatInput ==
    /\ chat_input = NoPrompt
    /\ Goto("l117", "l192")

\* lines 192-193, the end of the script
EndRun ==
    /\ pc = "l192"
    /\ pc' = "idle"
    /\ chat_input' = NoPrompt
    /\ history_for_gemini' = <<>>
    /\ chat_session' = NoSession
    /\ full_response' = ""
    /\ response_text' = ""
    /\ emitted' = <<>>
    /\ renders' = <<>>
    /\ UNCHANGED <<messages, session_start, now, use_streaming, max_history,
                   prompt, pre, outcome, reset_invoked>>
    /\ UNCHANGED convVars

-----------------------------------------------------------------------------
(* The chat turn, lines 117-189 *)

\* lines 117-123: the prompt is appended to the transcript and displayed
ChatInput ==
    /\ pc = "l117"
    /\ chat_input # NoPrompt
    /\ prompt' = chat_input
    /\ pre' = messages
    /\ messages' = Append(messages, UserMsg(chat_input))
    /\ pc' = "l127"
    /\ UNCHANGED <<session_start, now, use_streaming, max_history, chat_input,
                   history_for_gemini, chat_session, full_response,
                   response_text, emitted, renders, outcome, reset_invoked>>
    /\ UNCHANGED convVars

\* an exception no handler of the script catches: Streamlit shows it and the
\* script run ends there, its locals are gone
Uncaught(from) ==
    /\ pc = from
    /\ pc' = "idle"
    /\ outcome' = "uncaught"
    /\ chat_input' = NoPrompt
    /\ history_for_gemini' = <<>>
    /\ chat_session' = NoSession
    /\ UNCHANGED <<messages, session_start, now, use_streaming, max_history,
                   prompt, full_response, response_text, emitted, renders,
                   pre, reset_invoked>>
    /\ UNCHANGED convVars

\* line 127, outside the try block
GetModel ==
    /\ pc = "l127"
    /\ Goto("l127", "l130")

GetModelRaises ==
    /\ pc = "l127"
    /\ Uncaught("l127")

\* lines 130-133
ConvertHistory ==
    /\ pc = "l130"
    /\ history_for_gemini' =
          convert_messages_to_history(PreviousMessages(messages), max_history)
    /\ pc' = "l136"
    /\ UNCHANGED <<messages, session_start, now, use_streaming, max_history,
                   chat_input, prompt, chat_session, full_response,
                   response_text, emitted, renders, pre, outcome, reset_invoked>>
    /\ UNCHANGED convVars

\* line 136, outside the try block
StartChat ==
    /\ pc = "l136"
    /\ chat_session' = [open |-> TRUE, history |-> history_for_gemini, sent |-> <<>>]
    /\ pc' = "l139"
    /\ UNCHANGED <<messages, session_start, now, use_streaming, max_history,
                   chat_input, prompt, history_for_gemini, full_response,
                   response_text, emitted, renders, pre, outcome, reset_invoked>>
    /\ UNCHANGED convVars

StartChatRaises ==
    /\ pc = "l136"
    /\ Uncaught("l136")

\* an exception raised inside the try block: control goes to a handler
Raise(from, handlers) ==
    /\ pc = from
    /\ pc' \in handlers
    /\ UNCHANGED <<messages, session_start, now, use_streaming, max_history,
                   chat_input, pre, outcome, reset_invoked>>
    /\ UNCHANGED turnVars
    /\ UNCHANGED convVars

\* chat_session.send_message(prompt, ...): the request leaves
Send(to) ==
    /\ chat_session' = [chat_session EXCEPT !.sent = Append(@, prompt)]
    /\ pc' = to
    /\ UNCHANGED <<messages, session_start, now, use_streaming, max_history,
                   chat_input, prompt, history_for_gemini, full_response,
                   emitted, renders, pre, outcome, reset_invoked>>
    /\ UNCHANGED convVars

\* lines 139-142
StreamBegin ==
    /\ pc = "l139"
    /\ use_streaming
    /\ full_response' = ""
    /\ renders' = <<>>
    /\ pc' = "l145"
    /\ UNCHANGED <<messages, session_start, now, use_streaming, max_history,
                   chat_input, prompt, history_for_gemini, chat_session,
                   response_text, emitted, pre, outcome, reset_invoked>>
    /\ UNCHANGED convVars

\* line 145
StreamSend ==
    /\ pc = "l145"
    /\ Send("l147")
    /\ UNCHANGED response_text

StreamSendRaises ==
    /\ pc = "l145"
    /\ Raise("l145", {"l172", "l180"})

\* lines 147-150: the backend yields one more chunk, its text is f
StreamChunk ==
    /\ pc = "l147"
    /\ Len(emitted) < MaxFrags
    /\ \E f \in Fragments :
          /\ emitted' = Append(emitted, f)
          /\ IF f # ""
                THEN /\ full_response' = Accumulate(full_response, f)
                     /\ renders' = Append(renders, WithCursor(full_response'))
                ELSE UNCHANGED <<full_response, renders>>
    /\ UNCHANGED <<messages, session_start, now, use_streaming, max_history,
                   chat_input, pc, prompt, history_for_gemini, chat_session,
                   response_text, pre, outcome, reset_invoked>>
    /\ UNCHANGED convVars

\* the iteration of line 147 or chunk.text of line 148 raises
StreamChunkRaises ==
    /\ pc = "l147"
    /\ Raise("l147", {"l172", "l180"})

\* the stream is exhausted; line 153 renders without the cursor
StreamEnd ==
    /\ pc = "l147"
    /\ renders' = Append(renders, full_response)
    /\ pc' = "l156"
    /\ UNCHANGED <<messages, session_start, now, use_streaming, max_history,
                   chat_input, prompt, history_for_gemini, chat_session,
                   full_response, response_text, emitted, pre, outcome,
                   reset_invoked>>
    /\ UNCHANGED convVars

\* lines 156-159
StreamCommit ==
    /\ pc = "l156"
    /\ messages' = Append(messages, AssistantMsg(full_response))
    /\ outcome' = "ok"
    /\ pc' = "l192"
    /\ UNCHANGED <<session_start, now, use_streaming, max_history, chat_input,
                   pre, reset_invoked>>
    /\ UNCHANGED turnVars
    /\ UNCHANGED convVars

\* the fragments of a stream joined in emission order
RECURSIVE Concat(_)
Concat(frags) ==
    IF frags = <<>> THEN "" ELSE Head(frags) \o Concat(Tail(frags))

\* the texts the backend can answer with: what its streams add up to
Texts == {Concat(s) : s \in UNION {[1..k -> Fragments] : k \in 0..MaxFrags}}

\* line 163
BatchSend ==
    /\ pc = "l139"
    /\ ~use_streaming
    /\ Send("l164")
    /\ response_text' \in Texts

BatchSendRaises ==
    /\ ~use_streaming
    /\ Raise("l139", {"l172", "l180"})

\* line 164
BatchRender ==
    /\ pc = "l164"
    /\ renders' = Append(renders, response_text)
    /\ pc' = "l167"
    /\ UNCHANGED <<messages, session_start, now, use_streaming, max_history,
                   chat_input, prompt, history_for_gemini, chat_session,
                   full_response, response_text, emitted, pre, outcome,
                   reset_invoked>>
    /\ UNCHANGED convVars

\* response.text raises (a response without text)
BatchTextRaises ==
    /\ pc = "l164"
    /\ Raise("l164", {"l180"})

\* lines 167-170
BatchCommit ==
    /\ pc = "l167"
    /\ messages' = Append(messages, AssistantMsg(response_text))
    /\ outcome' = "ok"
    /\ pc' = "l192"
    /\ UNCHANGED <<session_start, now, use_streaming, max_history, chat_input,
                   pre, reset_invoked>>
    /\ UNCHANGED turnVars
    /\ UNCHANGED convVars

\* both handlers end with st.session_state.messages.pop()
Rollback(from, how) ==
    /\ pc = from
    /\ messages' = PyPop(messages)
    /\ outcome' = how
    /\ pc' = "l192"
    /\ UNCHANGED <<session_start, now, use_streaming, max_history, chat_input,
                   pre, reset_invoked>>
    /\ UNCHANGED turnVars
    /\ UNCHANGED convVars

\* lines 172-178
HandleBlocked ==
    /\ pc = "l172"
    /\ Rollback("l172", "blocked")

\* lines 180-189
HandleException ==
    /\ pc = "l180"
    /\ Rollback("l180", "failed")

-----------------------------------------------------------------------------
(* The session *)

Script ==
    \/ Reset68 \/ Reset69 \/ Rerun70
    \/ RenderSidebar \/ RenderTranscript \/ NoChatInput \/ EndRun
    \/ ChatInput \/ GetModel \/ GetModelRaises \/ ConvertHistory
    \/ StartChat \/ StartChatRaises
    \/ StreamBegin \/ StreamSend \/ StreamSendRaises
    \/ StreamChunk \/ StreamChunkRaises \/ StreamEnd \/ StreamCommit
    \/ BatchSend \/ BatchSendRaises \/ BatchRender \/ BatchTextRaises
    \/ BatchCommit
    \/ HandleBlocked \/ HandleException

Next ==
    \/ Tick
    \/ ClickReset \/ ToggleStreaming \/ MoveSlider
    \/ Submit(0, MaxMsgs)
    \/ Script

Spec == Init /\ [][Next]_vars

-----------------------------------------------------------------------------
(* A session that has already completed LongTurns turns, so that the       *)
(* transcript can exceed the smallest window the slider offers.            *)

LongTranscript ==
    [i \in 1..(2 * LongTurns) |->
        IF i % 2 = 1
            THEN UserMsg(IF i % 4 = 1 THEN "p" ELSE "q")
            ELSE AssistantMsg(IF i % 3 = 0 THEN "" ELSE IF i % 3 = 1 THEN "a" ELSE "aa")]

InitLong ==
    /\ messages = LongTranscript
    /\ session_start = 0
    /\ now = 0
    /\ use_streaming = TRUE
    /\ max_history = SliderDefault
    /\ chat_input = NoPrompt
    /\ pc = "idle"
    /\ prompt = NoPrompt
    /\ history_for_gemini = <<>>
    /\ chat_session = NoSession
    /\ full_response = ""
    /\ response_text = ""
    /\ emitted = <<>>
    /\ renders = <<>>
    /\ pre = <<>>
    /\ outcome = "none"
    /\ reset_invoked = -1
    /\ conv_pc = "off"
    /\ conv_messages = <<>>
    /\ conv_arg = <<>>
    /\ conv_K = 0
    /\ conv_out = <<>>

NextLong ==
    \/ Tick
    \/ ClickReset \/ ToggleStreaming \/ MoveSlider
    \/ Submit(2 * LongTurns, 2 * LongTurns + MaxNew)
    \/ Script

SpecLong == InitLong /\ [][NextLong]_vars

-----------------------------------------------------------------------------
(* convert_messages_to_history called directly, with any transcript and    *)
(* any window size                                                         *)

Roles == {"user", "assistant"}

ConvTranscripts ==
    UNION {[1..n -> [role : Roles, content : ConvContents]] : n \in 0..MaxConvLen}

InitConv ==
    /\ conv_pc = "call"
    /\ conv_messages \in ConvTranscripts
    /\ conv_arg = conv_messages
    /\ conv_K \in 0..MaxConvK
    /\ conv_out = <<>>
    /\ messages = <<>>
    /\ session_start = 0
    /\ now = 0
    /\ use_streaming = TRUE
    /\ max_history = SliderDefault
    /\ chat_input = NoPrompt
    /\ pc = "idle"
    /\ prompt = NoPrompt
    /\ history_for_gemini = <<>>
    /\ chat_session = NoSession
    /\ full_response = ""
    /\ response_text = ""
    /\ emitted = <<>>
    /\ renders = <<>>
    /\ pre = <<>>
    /\ outcome = "none"
    /\ reset_invoked = -1

\* the call: the function builds a new list and leaves its argument alone
ConvCall ==
    /\ conv_pc = "call"
    /\ conv_out' = convert_messages_to_history(conv_messages, conv_K)
    /\ conv_pc' = "ret"
    /\ UNCHANGED <<conv_messages, conv_arg, conv_K>>
    /\ UNCHANGED <<messages, session_start, now, use_streaming, max_history,
                   chat_input, pc, pre, outcome, reset_invoked>>
    /\ UNCHANGED turnVars

NextConv == ConvCall

SpecConv == InitConv /\ [][NextConv]_vars

-----------------------------------------------------------------------------
(* Properties *)

FailedOutcomes == {"blocked", "failed", "uncaught"}

\* the entry of the history that stands for message m
HistoryEntry(m) ==
    [role |-> IF m.role = "assistant" THEN "model" ELSE "user",
     parts |-> <<m.content>>]

\* the last n entries of s
LastN(s, n) == [i \in 1..n |-> s[Len(s) - n + i]]

\* C1: whenever a chat turn has failed (blocked, a caught failure, or a
\* failure of get_model / start_chat) and control is back with the UI, the
\* transcript is what it was before the prompt was appended.
C1_RollbackOnEveryFailure ==
    (pc = "idle" /\ outcome \in FailedOutcomes)
        => (Len(messages) = Len(pre) /\ messages = pre)

\* The part of C1 the handlers of lines 172-189 do achieve: a failure raised
\* inside the try block is rolled back.
CaughtFailureRolledBack ==
    (pc \in {"l192", "idle"} /\ outcome \in {"blocked", "failed"})
        => messages = pre

\* C2: with no request in flight, every user message of the transcript is
\* immediately followed by an assistant message.
C2_NoDanglingUser ==
    pc = "idle" =>
        \A i \in 1..Len(messages) :
            messages[i].role = "user" =>
                (i < Len(messages) /\ messages[i + 1].role = "assistant")

\* C3: the adapter returns at most min(len(T), K) entries, and they are the
\* last min(len(T), K) entries of T, oldest first, for every K including 0.
C3_WindowBound ==
    conv_pc = "ret" =>
        LET n == Min(Len(conv_messages), conv_K)
        IN /\ Len(conv_out) <= n
           /\ conv_out = [i \in 1..n |-> HistoryEntry(LastN(conv_messages, n)[i])]

\* the inverse of the role translation
InverseRole(r) == IF r = "model" THEN "assistant" ELSE "user"

\* C4: the role translation is a bijection of {user, assistant} onto
\* {user, model} (assistant to model, user to user): different roles stay
\* different, the inverse recovers the input roles, the contents are carried
\* over unchanged and the argument is not modified.
C4_RoleBijection ==
    conv_pc = "ret" =>
        LET n == Len(conv_out)
            src == LastN(conv_messages, n)
        IN /\ n <= Len(conv_messages)
           /\ conv_messages = conv_arg
           /\ \A i \in 1..n :
                /\ conv_out[i].role \in {"user", "model"}
                /\ (src[i].role = "assistant") <=> (conv_out[i].role = "model")
                /\ (src[i].role = "user") <=> (conv_out[i].role = "user")
                /\ InverseRole(conv_out[i].role) = src[i].role
                /\ conv_out[i].parts = <<src[i].content>>
           /\ \A i, j \in 1..n :
                (src[i].role # src[j].role) => (conv_out[i].role # conv_out[j].role)

C4_Witness ==
    /\ conv_pc = "ret"
    /\ Len(conv_out) >= 2
    /\ conv_out[1].role = "model"
    /\ conv_out[2].role = "user"
    /\ conv_out[1].parts # conv_out[2].parts

\* C5: a streaming turn that exhausts its fragments adds exactly one assistant
\* message after the turn's user message, whose content is the fragments
\* joined in emission order; a batch turn adds the text the backend returned,
\* so both commit the same entry when that text is the joined fragments.
C5_StreamCommitsConcat ==
    (pc = "l192" /\ outcome = "ok") =>
        /\ messages =
              pre \o <<UserMsg(prompt),
                       AssistantMsg(IF use_streaming THEN Concat(emitted)
                                                     ELSE response_text)>>
        /\ use_streaming => Concat(emitted) \in Texts

C5_Witness ==
    /\ pc = "l192"
    /\ outcome = "ok"
    /\ use_streaming
    /\ Len(emitted) = 2
    /\ emitted[1] # ""
    /\ emitted[2] # ""
    /\ messages[Len(messages)].content = emitted[1] \o emitted[2]

\* what the placeholder has shown after the first i fragments, when every
\* fragment with text is rendered with the cursor and an empty one is not
RECURSIVE CursorRenders(_, _)
CursorRenders(frags, i) ==
    IF i = 0 THEN <<>>
    ELSE IF frags[i] = "" THEN CursorRenders(frags, i - 1)
    ELSE Append(CursorRenders(frags, i - 1),
                Concat(SubSeq(frags, 1, i)) \o CursorMarker)

\* C6 as stated: in the streaming loop the placeholder has been updated after
\* every fragment, the i-th update showing fragments 1..i and the cursor.
C6_RenderAfterEveryFragment ==
    (pc = "l147") =>
        renders = [i \in 1..Len(emitted) |->
                      Concat(SubSeq(emitted, 1, i)) \o CursorMarker]

\* C6, amended: the placeholder is updated after every fragment whose text is
\* not empty, in emission order, the update showing all fragments so far and
\* the cursor; after the last fragment the full text is rendered without the
\* cursor, and only then the assistant message is committed.
C6_RenderAfterEveryNonEmptyFragment ==
    /\ (pc = "l147") => renders = CursorRenders(emitted, Len(emitted))
    /\ (pc = "l156") =>
          /\ renders = Append(CursorRenders(emitted, Len(emitted)), Concat(emitted))
          /\ messages = Append(pre, UserMsg(prompt))
    /\ (pc = "l192" /\ outcome = "ok" /\ use_streaming) =>
          /\ renders = Append(CursorRenders(emitted, Len(emitted)), Concat(emitted))
          /\ messages[Len(messages)] = AssistantMsg(renders[Len(renders)])

C6_Witness ==
    /\ pc = "l156"
    /\ emitted = <<"a", "a">>
    /\ renders = <<"a" \o CursorMarker, "aa" \o CursorMarker, "aa">>

\* C7: once the reset button has been clicked, every state of the run other
\* than the two between the click and the end of the handler (lines 68, 69),
\* so every render, and the idle state that follows, has an empty transcript
\* and a start time not before the click.
C7_ResetBeforeRender ==
    (reset_invoked # -1 /\ pc \notin {"l68", "l69"}) =>
        (messages = <<>> /\ session_start >= reset_invoked)

C7_Witness ==
    /\ pc = "l112"
    /\ reset_invoked >= 1
    /\ session_start > reset_invoked
    /\ messages = <<>>

\* C8: the chat is opened with the translation of the last
\* min(len, max_history) entries of the transcript as it was before the
\* prompt was appended, the pending prompt is not in it, and the prompt is
\* sent once, as the message of the request.
C8_HistoryExcludesPending ==
    /\ chat_session.open =>
          LET n == Min(Len(pre), max_history)
          IN /\ chat_session.history =
                    [i \in 1..n |-> HistoryEntry(LastN(pre, n)[i])]
             /\ messages = Append(pre, UserMsg(prompt)) \/ pc = "l192"
             /\ chat_session.sent =
                    IF pc \in {"l139", "l145"} THEN <<>> ELSE
                    IF pc \in {"l147", "l156", "l164", "l167"} THEN <<prompt>>
                    ELSE chat_session.sent
             /\ Len(chat_session.sent) <= 1
             /\ outcome = "ok" => chat_session.sent = <<prompt>>
    /\ pc \in {"l139", "l145", "l147", "l156", "l164", "l167"} => chat_session.open

C8_Witness ==
    /\ chat_session.open
    /\ chat_session.sent = <<prompt>>
    /\ Len(pre) > max_history
    /\ Len(chat_session.history) = max_history
    /\ pre[Len(pre)].role = "user"

\* C9: when a turn is over the transcript is the old transcript, or the old
\* transcript followed by the user message of the turn and one assistant
\* message.
C9_AppendOnly ==
    (pc = "idle" /\ outcome # "none") =>
        IF outcome = "ok"
            THEN /\ Len(messages) = Len(pre) + 2
                 /\ SubSeq(messages, 1, Len(pre)) = pre
                 /\ messages[Len(pre) + 1] = UserMsg(prompt)
                 /\ messages[Len(pre) + 2].role = "assistant"
            ELSE messages = pre

\* C10: the history a chat is opened with is empty, or starts with a user
\* entry, alternates user and model, and ends with a model entry.
C10_HistoryAlternates ==
    chat_session.open =>
        LET h == chat_session.history
        IN h = <<>> \/
            /\ h[1].role = "user"
            /\ h[Len(h)].role = "model"
            /\ \A i \in 1..(Len(h) - 1) : h[i].role # h[i + 1].role

====
